---------------------------- MODULE Spec2Model ----------------------------
(* A model of githubapp's webhook handler registry and dispatcher:          *)
(*   - the event class hierarchy of githubapp/events/issue_comment.py,      *)
(*   - add_handler / _validate_signature / handlers of webhook_handler.py,  *)
(*   - handle of webhook_handler.py, one action per step of its body.       *)
(* Event.get_event and the Event base class (githubapp/events/event.py) are *)
(* not part of the sources at hand; they are modelled from spec.md 4.2/4.3. *)
EXTENDS Integers, Sequences, FiniteSets, TLC

VARIABLES
    config,       \* config.Config: the attributes set on the ConfigValue
    cfgLast,      \* history: the most recent call on Config and its outcome
    handlers,     \* webhook_handler.handlers: event class -> list of methods
    regLog,       \* history: the add_handler calls that returned, in order
    last,         \* history: the most recent add_handler call and its outcome
    pc,           \* position of the current handle() call
    request,      \* the (headers, body) handle() was called with
    event_class,  \* handle's local event_class
    idx,          \* how many entries the for loop of line 123 has taken
    handler,      \* handle's loop variable handler
    event,        \* handle's local event (the instance built by line 124)
    instances,    \* number of Event instances built by this handle() call
    snapshot,     \* history: handlers[event_class] as line 123 found it
    trace,        \* history: what this handle() call did, in order
    error         \* the exception that left handle(), NoError if none

cfgVars == <<config, cfgLast>>

vars == <<handlers, regLog, last, pc, request, event_class, idx, handler,
          event, instances, snapshot, trace, error, cfgVars>>

-----------------------------------------------------------------------------
(* Bounds *)

\* at most this many add_handler calls return normally in a behaviour
MaxRegistrations == 2

-----------------------------------------------------------------------------
(* The event class hierarchy *)

EventTypes ==
    {"Event", "IssueCommentEvent", "IssueCommentCreatedEvent",
     "IssueCommentDeletedEvent", "IssueCommentEditedEvent"}

\* cls.__subclasses__(): the direct subclasses, in definition order
subclasses(cls) ==
    CASE cls = "Event" -> <<"IssueCommentEvent">>
      [] cls = "IssueCommentEvent" ->
            <<"IssueCommentCreatedEvent", "IssueCommentDeletedEvent",
              "IssueCommentEditedEvent">>
      [] OTHER -> <<>>

\* the class statement's base class
Parent(cls) ==
    CASE cls = "IssueCommentEvent" -> "Event"
      [] cls \in {"IssueCommentCreatedEvent", "IssueCommentDeletedEvent",
                  "IssueCommentEditedEvent"} -> "IssueCommentEvent"
      [] OTHER -> "object"

\* the classes that declare an event_identifier
DeclaredEventTypes == EventTypes \ {"Event"}

\* IssueCommentDeletedEvent declared with the identifier of the class above it
event_identifier_CopyPaste(cls) ==
    CASE cls = "IssueCommentEvent" -> ("event" :> "issue_comment")
      [] cls = "IssueCommentCreatedEvent" -> ("action" :> "created")
      [] cls = "IssueCommentDeletedEvent" -> ("action" :> "created")
      [] cls = "IssueCommentEditedEvent" -> ("action" :> "edited")

\* cls.event_identifier: criterion key -> required value
event_identifier(cls) ==
    CASE cls = "IssueCommentEvent" -> ("event" :> "issue_comment")
      [] cls = "IssueCommentCreatedEvent" -> ("action" :> "created")
      [] cls = "IssueCommentDeletedEvent" -> ("action" :> "deleted")
      [] cls = "IssueCommentEditedEvent" -> ("action" :> "edited")

\* the names __init__ of cls and of its bases require from the body
RequiredFields(cls) ==
    CASE cls = "Event" -> {}
      [] cls = "IssueCommentEditedEvent" -> {"issue", "issue_comment", "changes"}
      [] OTHER -> {"issue", "issue_comment"}

\* issubclass(cls, anc)
RECURSIVE IsSubclass(_, _)
IsSubclass(cls, anc) ==
    \/ cls = anc
    \/ cls \in EventTypes /\ Parent(cls) \in EventTypes
       /\ IsSubclass(Parent(cls), anc)

IsLeaf(cls) == \A c \in EventTypes : Parent(c) # cls

LeafTypes == {c \in EventTypes : IsLeaf(c)}

\* the leaf classes below (or equal to) cls
LeafDescendants(cls) == {c \in LeafTypes : IsSubclass(c, cls)}

-----------------------------------------------------------------------------
(* Handler methods *)

Methods == {"on_comment", "on_any", "no_args", "two_args"}

\* inspect.signature(method).parameters
parameters(method) ==
    CASE method = "no_args" -> <<>>
      [] method = "two_args" -> <<"event", "context">>
      [] OTHER -> <<"event">>

\* _validate_signature: TRUE iff it raises SignatureError
validate_signature_raises(method) == Len(parameters(method)) # 1

\* handlers.get(cls, [])
Get(reg, cls) == IF cls \in DOMAIN reg THEN reg[cls] ELSE <<>>

\* handlers[cls].insert(0, method) in place of append
Append_handler_Prepend(reg, cls, method) ==
    [c \in (DOMAIN reg) \cup {cls} |-> IF c = cls THEN <<method>> \o Get(reg, cls)
                                       ELSE reg[c]]

\* handlers[cls].append(method) on the defaultdict(list)
Append_handler(reg, cls, method) ==
    [c \in (DOMAIN reg) \cup {cls} |-> IF c = cls THEN Append(Get(reg, cls), method)
                                       ELSE reg[c]]

\* add_handler(event, method) applied to registry reg: the registry it leaves
\* behind and whether it raised SignatureError
RECURSIVE add_handler(_, _, _)
RECURSIVE add_handler_subclasses(_, _, _)

\* add_handler that returns out of its loop after the first subclass
add_handler_FirstSubclassOnly(reg, cls, method) ==
    IF subclasses(cls) # <<>>
    THEN add_handler(reg, Head(subclasses(cls)), method)
    ELSE IF validate_signature_raises(method)
         THEN [handlers |-> reg, raised |-> TRUE]
         ELSE [handlers |-> Append_handler(reg, cls, method), raised |-> FALSE]

\* add_handler that appends before it validates the signature
add_handler_AppendThenValidate(reg, cls, method) ==
    IF subclasses(cls) # <<>>
    THEN add_handler_subclasses(reg, subclasses(cls), method)
    ELSE [handlers |-> Append_handler(reg, cls, method),
          raised |-> validate_signature_raises(method)]

\* add_handler that stores a leaf's handler under every subclass of the
\* leaf's base class
add_handler_Siblings(reg, cls, method) ==
    IF subclasses(cls) # <<>>
    THEN add_handler_subclasses(reg, subclasses(cls), method)
    ELSE IF validate_signature_raises(method)
         THEN [handlers |-> reg, raised |-> TRUE]
         ELSE LET sibs == subclasses(Parent(cls))
              IN  [handlers |->
                     Append_handler(
                       Append_handler(Append_handler(reg, sibs[1], method),
                                      sibs[2], method),
                       sibs[3], method),
                   raised |-> FALSE]

\* add_handler that also stores the handler under the non-leaf class itself
add_handler_KeepsNonLeaf(reg, cls, method) ==
    IF subclasses(cls) # <<>>
    THEN LET r == add_handler_subclasses(reg, subclasses(cls), method)
         IN  IF r.raised THEN r
             ELSE [handlers |-> Append_handler(r.handlers, cls, method),
                   raised |-> FALSE]
    ELSE IF validate_signature_raises(method)
         THEN [handlers |-> reg, raised |-> TRUE]
         ELSE [handlers |-> Append_handler(reg, cls, method), raised |-> FALSE]

add_handler_subclasses(reg, subs, method) ==
    IF subs = <<>> THEN [handlers |-> reg, raised |-> FALSE]
    ELSE LET r == add_handler(reg, Head(subs), method)
         IN  IF r.raised THEN r
             ELSE add_handler_subclasses(r.handlers, Tail(subs), method)

add_handler(reg, cls, method) ==
    IF subclasses(cls) # <<>>
    THEN add_handler_subclasses(reg, subclasses(cls), method)
    ELSE IF validate_signature_raises(method)
         THEN [handlers |-> reg, raised |-> TRUE]
         ELSE [handlers |-> Append_handler(reg, cls, method), raised |-> FALSE]

-----------------------------------------------------------------------------
(* Requests *)

EventHeader == "X-Github-Event"
TargetIdHeader == "X-Github-Hook-Installation-Target-Id"

Actions == {"created", "deleted", "edited", "reopened"}

\* body keys other than action and installation that a request may carry
FieldSets ==
    {{"issue", "issue_comment", "changes"}, {"issue", "issue_comment"},
     {"issue", "comment"}}

Fields(fs) == [k \in fs |-> "{...}"]

GoodHeaders == (EventHeader :> "issue_comment") @@ (TargetIdHeader :> "1")
GoodBody == ("action" :> "created") @@ ("installation" :> "{id: 1}")
            @@ Fields({"issue", "issue_comment", "changes"})

\* the requests handle() is called with: the well-formed issue_comment
\* deliveries, with and without an action, and one request per defect
Requests ==
    {[headers |-> GoodHeaders,
      body |-> ("action" :> a) @@ ("installation" :> "{id: 1}") @@ Fields(fs)] :
        a \in Actions, fs \in FieldSets}
    \cup
    {[headers |-> GoodHeaders,
      body |-> ("installation" :> "{id: 1}") @@ Fields(fs)] : fs \in FieldSets}
    \cup
    {[headers |-> (TargetIdHeader :> "1"), body |-> GoodBody],
     [headers |-> (EventHeader :> "widget_frobnicated") @@ (TargetIdHeader :> "1"),
      body |-> GoodBody],
     [headers |-> (EventHeader :> "issue_comment"), body |-> GoodBody],
     [headers |-> GoodHeaders,
      body |-> ("action" :> "created") @@ ("installation" :> "{}")
               @@ Fields({"issue", "issue_comment"})],
     [headers |-> GoodHeaders,
      body |-> ("action" :> "created") @@ Fields({"issue", "issue_comment"})]}

-----------------------------------------------------------------------------
(* Errors *)

Err(type, from) == [type |-> type, from |-> from]
NoError == Err("NoError", "-")

-----------------------------------------------------------------------------
(* Event.get_event: resolution of (headers, body) to an event class *)

\* the request value a criterion key is compared with: the event name comes
\* from the event-name header, every other key from the body
HasKey(req, key) ==
    IF key = "event" THEN EventHeader \in DOMAIN req.headers
    ELSE key \in DOMAIN req.body

Lookup(req, key) ==
    IF key = "event" THEN req.headers[EventHeader] ELSE req.body[key]

\* all of cls's own criteria hold of the request
Matches(cls, req) ==
    \A key \in DOMAIN event_identifier(cls) :
        HasKey(req, key) /\ Lookup(req, key) = event_identifier(cls)[key]

MatchingSubclasses(cls, req) ==
    SelectSeq(subclasses(cls), LAMBDA c : Matches(c, req))

\* descend into the first matching child until no child matches
RECURSIVE Descend(_, _)
Descend(cls, req) ==
    IF MatchingSubclasses(cls, req) = <<>> THEN cls
    ELSE Descend(Head(MatchingSubclasses(cls, req)), req)

\* resolve(headers, body): the class, or the error raised
get_event(req) ==
    IF EventHeader \notin DOMAIN req.headers
    THEN [cls |-> "None", error |-> Err("MalformedRequestError", EventHeader)]
    ELSE IF MatchingSubclasses("Event", req) = <<>>
    THEN [cls |-> "None", error |-> Err("UnknownEventError", EventHeader)]
    ELSE [cls |-> Descend(Head(MatchingSubclasses("Event", req)), req),
          error |-> NoError]

-----------------------------------------------------------------------------
(* config.py: values, ConfigValue.set_values and ConfigValue.create_config *)

\* attribute names, and the order in which a dict that holds them lists them
Names == {"a", "b"}
NameOrder == <<"a", "b">>

\* basic values, written as Python writes them, and the ones nested dicts hold
Scalars == {"0", "5"}
NestedScalars == {"5"}

\* the basic values bool() takes for false
FalsyScalars == {"0", "False", "", "[]"}

\* a value: None, a basic value, a dict or a ConfigValue object with the
\* attributes set on it
NoneValue == [kind |-> "none", v |-> "None", attrs |-> <<>>]
Scalar(v) == [kind |-> "scalar", v |-> v, attrs |-> <<>>]
Dict(items) == [kind |-> "dict", v |-> "", attrs |-> items]
ConfigValue(attrs) == [kind |-> "config", v |-> "", attrs |-> attrs]

\* bool(value)
Truthy(value) ==
    CASE value.kind = "none" -> FALSE
      [] value.kind = "scalar" -> value.v \notin FalsyScalars
      [] value.kind = "dict" -> DOMAIN value.attrs # {}
      [] value.kind = "config" -> TRUE

\* the dicts of basic values, the values a dict of the input may hold, and
\* the input dicts (two levels deep at most)
FlatDicts == UNION {[S -> {Scalar(v) : v \in NestedScalars}] : S \in SUBSET Names}
DataValues == {Scalar(v) : v \in Scalars} \cup {Dict(d) : d \in FlatDicts}
Datas == UNION {[S -> DataValues] : S \in SUBSET Names}

\* dict.items(): the keys in the order the dict lists them
Items(data) == SelectSeq(NameOrder, LAMBDA n : n \in DOMAIN data)

\* setattr(self, attr, value)
SetAttr(attrs, attr, value) ==
    [n \in (DOMAIN attrs) \cup {attr} |-> IF n = attr THEN value ELSE attrs[n]]

\* self.set_values(data) on the object with attributes attrs: the attributes
\* it leaves and the exception it raises ("" if none). A dict value is merged
\* into getattr(self, attr, ConfigValue()), which is whatever the attribute
\* holds; calling set_values on a basic value raises AttributeError
RECURSIVE set_values(_, _)
RECURSIVE set_values_items(_, _, _)
set_values_items(attrs, data, names) ==
    IF names = <<>> THEN [attrs |-> attrs, exc |-> ""]
    ELSE LET attr == Head(names)
             value == data[attr]
             config_value == IF attr \in DOMAIN attrs THEN attrs[attr]
                             ELSE ConfigValue(<<>>)
         IN  IF value.kind = "dict"
             THEN IF config_value.kind # "config"
                  THEN [attrs |-> attrs, exc |-> "AttributeError"]
                  ELSE LET r == set_values(config_value.attrs, value.attrs)
                       IN  IF r.exc # ""
                           THEN [attrs |-> IF attr \in DOMAIN attrs
                                           THEN SetAttr(attrs, attr,
                                                        ConfigValue(r.attrs))
                                           ELSE attrs,
                                 exc |-> r.exc]
                           ELSE set_values_items(
                                    SetAttr(attrs, attr, ConfigValue(r.attrs)),
                                    data, Tail(names))
             ELSE set_values_items(SetAttr(attrs, attr, value), data, Tail(names))

set_values(attrs, data) == set_values_items(attrs, data, Items(data))

\* create_config that tests the default for truth, not for None
create_config_Truthiness(attrs, name, default, values) ==
    IF Truthy(default) /\ DOMAIN values # {}
    THEN [attrs |-> attrs, exc |-> "ConfigError"]
    ELSE LET d == IF Truthy(default) THEN default ELSE ConfigValue(<<>>)
             r == set_values(attrs, name :> d)
         IN  IF r.exc # "" \/ DOMAIN values = {} THEN r
             ELSE LET n == set_values(r.attrs[name].attrs, values)
                  IN  [attrs |-> SetAttr(r.attrs, name, ConfigValue(n.attrs)),
                       exc |-> n.exc]

\* self.create_config(name, default=default, **values)
create_config(attrs, name, default, values) ==
    IF default.kind # "none" /\ DOMAIN values # {}
    THEN [attrs |-> attrs, exc |-> "ConfigError"]
    ELSE LET d == IF Truthy(default) THEN default ELSE ConfigValue(<<>>)
             r == set_values(attrs, name :> d)
         IN  IF r.exc # "" \/ DOMAIN values = {} THEN r
             ELSE LET n == set_values(r.attrs[name].attrs, values)
                  IN  [attrs |-> SetAttr(r.attrs, name, ConfigValue(n.attrs)),
                       exc |-> n.exc]

\* a call on Config, for cfgLast
ConfigCall(op, name, default, data, pre, exc) ==
    [op |-> op, name |-> name, default |-> default, data |-> data,
     pre |-> pre, exc |-> exc]

NoConfigCall == ConfigCall("none", "-", NoneValue, <<>>, <<>>, "")

-----------------------------------------------------------------------------
(* State *)

NoCall == [op |-> "none", event |-> "None", method |-> "None",
           pre |-> <<>>, raised |-> FALSE]
NoRequest == [headers |-> <<>>, body |-> <<>>]
NoEvent == [id |-> 0, check_run |-> FALSE]

\* an entry of trace
Did(op, method, instance) == [op |-> op, method |-> method, instance |-> instance]

Init ==
    /\ handlers = <<>>
    /\ regLog = <<>>
    /\ last = NoCall
    /\ pc = "idle"
    /\ request = NoRequest
    /\ event_class = "None"
    /\ idx = 0
    /\ handler = "None"
    /\ event = NoEvent
    /\ instances = 0
    /\ snapshot = <<>>
    /\ trace = <<>>
    /\ error = NoError
    /\ config = <<>>
    /\ cfgLast = NoConfigCall

\* no add_handler or handle() call is running
Idle == pc = "idle"

\* the locals and the history of the last handle() call are gone
ForgetHandle ==
    /\ pc' = "idle"
    /\ request' = NoRequest
    /\ event_class' = "None"
    /\ idx' = 0
    /\ handler' = "None"
    /\ event' = NoEvent
    /\ instances' = 0
    /\ snapshot' = <<>>
    /\ trace' = <<>>
    /\ error' = NoError
    /\ UNCHANGED cfgVars

-----------------------------------------------------------------------------
(* Registration: add_handler(cls, method), also through @webhook_handler *)

Register(cls, method) ==
    /\ Idle
    /\ Len(regLog) < MaxRegistrations
    /\ LET r == add_handler(handlers, cls, method)
       IN  /\ handlers' = r.handlers
           /\ regLog' = IF r.raised THEN regLog
                        ELSE Append(regLog, [event |-> cls, method |-> method])
           /\ last' = [op |-> "add_handler", event |-> cls, method |-> method,
                       pre |-> handlers, raised |-> r.raised]
    /\ ForgetHandle

-----------------------------------------------------------------------------
(* Dispatch: handle(headers, body) *)

\* line 108: body["installation"]["id"] is there
HasInstallationId(req) ==
    IF "installation" \in DOMAIN req.body
    THEN req.body["installation"] = "{id: 1}" ELSE FALSE

\* _get_auth: the requests it sends to the platform. With CLIENT_ID in the
\* environment it builds an AppUserAuth locally; without, it asks the
\* platform for an installation access token
get_auth_calls(client_id) ==
    IF client_id THEN <<>> ELSE <<Did("get_access_token", "None", 0)>>

\* the defaultdict after handlers[cls], which stores an empty list under a
\* key it does not have
registry_after_get_Subscript(reg, cls) ==
    IF cls \in DOMAIN reg THEN reg ELSE reg @@ (cls :> <<>>)

\* line 123: the defaultdict after handlers.get(cls, []), which stores nothing
registry_after_get(reg, cls) == reg

\* handle() ends with exception err (NoError: it returns)
Leave(err) ==
    /\ pc' = "done"
    /\ error' = err

\* lines 106-123: resolution, the two ids, the credentials (which the request
\* for an access token may fail to get) and clients, and the lookup
\* handlers.get(event_class, []) that starts the loop
HandleStart(req) ==
    /\ Idle
    /\ request' = req
    /\ last' = NoCall
    /\ idx' = 0
    /\ handler' = "None"
    /\ event' = NoEvent
    /\ instances' = 0
    /\ UNCHANGED <<regLog, cfgVars>>
    /\ LET res == get_event(req)
       IN  \/ /\ res.error # NoError
              /\ event_class' = "None"
              /\ trace' = <<>>
              /\ UNCHANGED <<handlers, snapshot>>
              /\ Leave(res.error)
           \/ /\ res.error = NoError
              /\ TargetIdHeader \notin DOMAIN req.headers
              /\ event_class' = res.cls
              /\ trace' = <<>>
              /\ UNCHANGED <<handlers, snapshot>>
              /\ Leave(Err("KeyError", TargetIdHeader))
           \/ /\ res.error = NoError
              /\ TargetIdHeader \in DOMAIN req.headers
              /\ ~HasInstallationId(req)
              /\ event_class' = res.cls
              /\ trace' = <<>>
              /\ UNCHANGED <<handlers, snapshot>>
              /\ Leave(Err("KeyError", "installation"))
           \/ /\ res.error = NoError
              /\ TargetIdHeader \in DOMAIN req.headers
              /\ HasInstallationId(req)
              /\ event_class' = res.cls
              /\ \E client_id \in BOOLEAN :
                    /\ trace' = get_auth_calls(client_id)
                    /\ \/ /\ ~client_id
                          /\ UNCHANGED <<handlers, snapshot>>
                          /\ Leave(Err("GithubException", "get_access_token"))
                       \/ /\ res.cls \notin DOMAIN handlers
                          /\ handlers' = registry_after_get(handlers, res.cls)
                          /\ snapshot' = <<>>
                          /\ Leave(NoError)
                       \/ /\ res.cls \in DOMAIN handlers
                          /\ handlers' = registry_after_get(handlers, res.cls)
                          /\ snapshot' = handlers[res.cls]
                          /\ pc' = "loop"
                          /\ error' = NoError

\* the for loop over reversed(handlers[event_class])
LoopNext_Reversed ==
    /\ pc = "loop"
    /\ UNCHANGED <<handlers, regLog, last, request, event_class, event,
                   instances, trace, snapshot, cfgVars>>
    /\ \/ /\ idx < Len(handlers[event_class])
          /\ idx' = idx + 1
          /\ handler' = handlers[event_class][Len(handlers[event_class]) - idx]
          /\ pc' = "construct"
          /\ error' = error
       \/ /\ idx >= Len(handlers[event_class])
          /\ UNCHANGED <<idx, handler>>
          /\ Leave(NoError)

\* line 123: the for loop takes the next entry of the list, or ends
LoopNext ==
    /\ pc = "loop"
    /\ UNCHANGED <<handlers, regLog, last, request, event_class, event,
                   instances, trace, snapshot, cfgVars>>
    /\ \/ /\ idx < Len(handlers[event_class])
          /\ idx' = idx + 1
          /\ handler' = handlers[event_class][idx + 1]
          /\ pc' = "construct"
          /\ error' = error
       \/ /\ idx >= Len(handlers[event_class])
          /\ UNCHANGED <<idx, handler>>
          /\ Leave(NoError)

\* line 124: event = event_class(gh=gh, requester=requester, headers=headers, **body)
Construct ==
    /\ pc = "construct"
    /\ UNCHANGED <<handlers, regLog, last, request, event_class, idx, handler,
                   snapshot, cfgVars>>
    /\ \/ /\ RequiredFields(event_class) \subseteq DOMAIN request.body
          /\ instances' = instances + 1
          /\ event' = [id |-> instances + 1, check_run |-> FALSE]
          /\ trace' = Append(trace, Did("construct", "None", instances + 1))
          /\ pc' = "call"
          /\ error' = error
       \/ /\ ~(RequiredFields(event_class) \subseteq DOMAIN request.body)
          /\ UNCHANGED <<instances, event, trace>>
          /\ Leave(Err("TypeError", "__init__"))

\* line 126: handler(event) is entered
Call ==
    /\ pc = "call"
    /\ trace' = Append(trace, Did("call", handler, event.id))
    /\ pc' = "handler"
    /\ UNCHANGED <<handlers, regLog, last, request, event_class, idx, handler,
                   event, instances, error, snapshot, cfgVars>>

\* line 126: handler(event) returns
HandlerReturns ==
    /\ pc = "handler"
    /\ trace' = Append(trace, Did("return", handler, event.id))
    /\ pc' = "loop"
    /\ UNCHANGED <<handlers, regLog, last, request, event_class, idx, handler,
                   event, instances, error, snapshot, cfgVars>>

\* lines 126-127: handler(event) raises; the event it worked on has a check
\* run bound or has none
HandlerRaises ==
    /\ pc = "handler"
    /\ \E bound \in BOOLEAN : event' = [event EXCEPT !.check_run = bound]
    /\ trace' = Append(trace, Did("raise", handler, event.id))
    /\ pc' = "except"
    /\ UNCHANGED <<handlers, regLog, last, request, event_class, idx, handler,
                   instances, error, snapshot, cfgVars>>

\* lines 128-133: the except block
Except ==
    /\ pc = "except"
    /\ UNCHANGED <<handlers, regLog, last, request, event_class, idx, handler,
                   event, instances, snapshot, cfgVars>>
    /\ \/ /\ event.check_run
          /\ trace' = Append(trace, Did("update_check_run", "failure", event.id))
          /\ \/ Leave(Err("Exception", handler))
             \/ Leave(Err("GithubException", "update_check_run"))
       \/ /\ ~event.check_run
          /\ trace' = trace
          /\ Leave(Err("Exception", handler))

\* the caller of handle() has taken its result or its exception
HandleReturn ==
    /\ pc = "done"
    /\ ForgetHandle
    /\ UNCHANGED <<handlers, regLog, last>>

-----------------------------------------------------------------------------

Next ==
    \/ \E cls \in EventTypes, method \in Methods : Register(cls, method)
    \/ \E req \in Requests : HandleStart(req)
    \/ LoopNext
    \/ Construct
    \/ Call
    \/ HandlerReturns
    \/ HandlerRaises
    \/ Except
    \/ HandleReturn

Spec == Init /\ [][Next]_vars

-----------------------------------------------------------------------------
(* Registration while a dispatch is running: add_handler called by the      *)
(* running handler or by another thread. Neither add_handler nor handle     *)
(* takes a lock, so the call is enabled at every point of the loop.         *)

\* handle() is between its lookup (line 123) and the end of its loop
Running == pc \in {"loop", "construct", "call", "handler", "except"}

RegisterDuring(cls, method) ==
    /\ Running
    /\ Len(regLog) < MaxRegistrations
    /\ LET r == add_handler(handlers, cls, method)
       IN  /\ handlers' = r.handlers
           /\ regLog' = IF r.raised THEN regLog
                        ELSE Append(regLog, [event |-> cls, method |-> method])
           /\ last' = [op |-> "add_handler", event |-> cls, method |-> method,
                       pre |-> handlers, raised |-> r.raised]
    /\ UNCHANGED <<pc, request, event_class, idx, handler, event, instances,
                   snapshot, trace, error, cfgVars>>

NextInterleaved ==
    \/ Next
    \/ \E cls \in EventTypes, method \in Methods : RegisterDuring(cls, method)

SpecInterleaved == Init /\ [][NextInterleaved]_vars

-----------------------------------------------------------------------------
(* Calls on config.Config *)

webhookVars == <<handlers, regLog, last, pc, request, event_class, idx,
                 handler, event, instances, snapshot, trace, error>>

\* Config.set_values(data)
SetValues(data) ==
    /\ LET r == set_values(config, data)
       IN  /\ config' = r.attrs
           /\ cfgLast' = ConfigCall("set_values", "-", NoneValue, data, config,
                                    r.exc)
    /\ UNCHANGED webhookVars

\* Config.create_config(name, default=default, **values)
CreateConfig(name, default, values) ==
    /\ LET r == create_config(config, name, default, values)
       IN  /\ config' = r.attrs
           /\ cfgLast' = ConfigCall("create_config", name, default, values,
                                    config, r.exc)
    /\ UNCHANGED webhookVars

\* Config.load_config_from_file(filename, repository): the file is there and
\* holds data (an empty file gives {}), or get_contents raises
\* UnknownObjectException, which is swallowed
LoadConfigFromFile(found, data) ==
    /\ LET r == IF found THEN set_values(config, data)
                ELSE [attrs |-> config, exc |-> ""]
       IN  /\ config' = r.attrs
           /\ cfgLast' = ConfigCall("load_config_from_file", "-", NoneValue,
                                    IF found THEN data ELSE <<>>, config, r.exc)
    /\ UNCHANGED webhookVars

NextConfig ==
    \/ \E data \in Datas : SetValues(data)
    \/ \E name \in Names, default \in {NoneValue} \cup DataValues,
          values \in FlatDicts : CreateConfig(name, default, values)
    \/ \E found \in BOOLEAN, data \in Datas : LoadConfigFromFile(found, data)

SpecConfig == Init /\ [][NextConfig]_vars

-----------------------------------------------------------------------------
(* Vocabulary of the properties *)

\* the direct subclasses of cls, by the class statements
Children(cls) == {c \in EventTypes : Parent(c) = cls}

\* the methods of a sequence of registrations or of trace entries
MethodsOf(seq) == [j \in 1..Len(seq) |-> seq[j].method]

\* the handlers this handle() call has entered, in order
Called == MethodsOf(SelectSeq(trace, LAMBDA d : d.op = "call"))

\* the entries of trace about entering and leaving handlers
CallsAndExits == SelectSeq(trace, LAMBDA d : d.op \in {"call", "return", "raise"})

\* the check-run updates this handle() call has issued
Updates == SelectSeq(trace, LAMBDA d : d.op = "update_check_run")

\* the handlers that raised in this handle() call
Raises == SelectSeq(trace, LAMBDA d : d.op = "raise")

\* the registered methods that apply to leaf, in the order of the calls
Applying(leaf) ==
    MethodsOf(SelectSeq(regLog, LAMBDA r : IsSubclass(leaf, r.event)))

IsPrefix(s, t) == Len(s) <= Len(t) /\ s = SubSeq(t, 1, Len(s))

\* add_handler(leaf, method) called once for each leaf of the set
RECURSIVE RegisterOnEach(_, _, _)
RegisterOnEach(reg, leaves, method) ==
    IF leaves = {} THEN reg
    ELSE LET leaf == CHOOSE l \in leaves : TRUE
         IN  RegisterOnEach(add_handler(reg, leaf, method).handlers,
                            leaves \ {leaf}, method)

Registered == last.op = "add_handler"

\* handle() has returned to its caller without an exception
Returned == pc = "done" /\ error = NoError

-----------------------------------------------------------------------------
(* C1 *)

\* C1: add_handler(T, h) on a non-leaf class T leaves the registry that
\* add_handler(L, h), called once for each leaf descendant L of T and for no
\* other class, leaves; where it succeeds, h is the last entry of each of
\* those leaves' lists, behind everything registered before, and no other
\* key is touched.
C1_NonLeafAsLeaves ==
    (Registered /\ ~IsLeaf(last.event)) =>
        /\ handlers = RegisterOnEach(last.pre, LeafDescendants(last.event),
                                     last.method)
        /\ ~last.raised =>
              /\ \A L \in LeafDescendants(last.event) :
                    Get(handlers, L) = Append(Get(last.pre, L), last.method)
              /\ \A c \in EventTypes \ LeafDescendants(last.event) :
                    /\ Get(handlers, c) = Get(last.pre, c)
                    /\ c \in DOMAIN handlers <=> c \in DOMAIN last.pre

C1_Witness ==
    /\ Registered /\ ~IsLeaf(last.event) /\ ~last.raised
    /\ \E L, M \in LeafDescendants(last.event) :
          Len(Get(last.pre, L)) = 1 /\ Len(Get(last.pre, M)) = 0

-----------------------------------------------------------------------------
(* C2 *)

\* C2: each leaf's list is exactly the registrations that apply to the leaf
\* (made on it or on an ancestor), in the order of the add_handler calls, and
\* an add_handler call only appends: each list before the call is a prefix
\* of the list after it.
C2_ChronologicalPerLeaf ==
    /\ \A L \in LeafTypes : Get(handlers, L) = Applying(L)
    /\ Registered => \A c \in EventTypes :
                        IsPrefix(Get(last.pre, c), Get(handlers, c))

C2_Witness ==
    /\ Len(regLog) = 2
    /\ regLog[1].event = "IssueCommentCreatedEvent"
    /\ regLog[2].event = "IssueCommentEvent"
    /\ regLog[1].method # regLog[2].method
    /\ Len(handlers["IssueCommentCreatedEvent"]) = 2
    /\ Len(handlers["IssueCommentDeletedEvent"]) = 1

-----------------------------------------------------------------------------
(* C3 *)

\* C3: add_handler with a method whose parameter count is not one raises
\* SignatureError and leaves the registry as it was, on a leaf class and on
\* a non-leaf class alike.
C3_SignatureErrorAtomic ==
    (Registered /\ Len(parameters(last.method)) # 1) =>
        last.raised /\ handlers = last.pre

C3_Witness ==
    /\ Registered /\ last.raised
    /\ Cardinality(LeafDescendants(last.event)) > 1
    /\ Len(parameters(last.method)) = 2
    /\ last.pre # <<>>

-----------------------------------------------------------------------------
(* C4 *)

\* C4: at every point of a dispatch the handlers entered so far are the first
\* entries of the resolved class's registered list, in registration order,
\* and a handler is entered only after the one before it has returned; a
\* dispatch that returns, no handler having raised, has entered each entry of
\* the list exactly once, first to last.
C4_InOrderOnceSynchronous ==
    /\ event_class # "None" => IsPrefix(Called, Get(handlers, event_class))
    /\ \A j \in 1..Len(CallsAndExits) :
          IF j % 2 = 1 THEN CallsAndExits[j].op = "call"
          ELSE /\ CallsAndExits[j].op \in {"return", "raise"}
               /\ CallsAndExits[j].method = CallsAndExits[j - 1].method
    /\ \A j \in 1..Len(Raises) : j = Len(Raises) /\ pc \in {"except", "done"}
    /\ (Returned /\ event_class # "None") =>
          /\ Raises = <<>>
          /\ Called = Get(handlers, event_class)
          /\ Len(CallsAndExits) = 2 * Len(Called)

C4_Witness ==
    /\ Returned
    /\ Len(Called) = 2
    /\ Called[1] # Called[2]
    /\ Called = handlers[event_class]

-----------------------------------------------------------------------------
(* C5 *)

\* C5: once the k-th handler of a dispatch has raised, no further handler is
\* entered in that dispatch, and the exception that leaves handle() is the
\* one that handler raised.
C5_RaisePropagates ==
    (pc = "done" /\ Raises # <<>>) =>
        /\ CallsAndExits[Len(CallsAndExits)].op = "raise"
        /\ error = Err("Exception", Raises[1].method)

-----------------------------------------------------------------------------
(* C6 *)

\* C6: a dispatch in which a handler raised on an event with a check run
\* bound has issued one update_check_run(conclusion="failure") and ends with
\* the handler's exception, however the update went; a dispatch in which no
\* handler raised, or the event had no check run bound, has issued no update.
C6_CheckRunThenOriginal ==
    pc = "done" =>
        /\ (Raises # <<>> /\ event.check_run) =>
              /\ Len(Updates) = 1
              /\ Updates[1].method = "failure"
              /\ error = Err("Exception", Raises[1].method)
        /\ (Raises = <<>> \/ ~event.check_run) => Updates = <<>>

-----------------------------------------------------------------------------
(* C7 *)

\* C7: a dispatch of a request that carries both ids and resolves to a leaf
\* class without registered handlers returns without an exception and has
\* done nothing: no handler entered, no event built, no check-run update, no
\* request to an external collaborator.
C7_NoHandlersNoOp ==
    (/\ pc = "done"
     /\ event_class \in LeafTypes
     /\ Get(handlers, event_class) = <<>>
     /\ TargetIdHeader \in DOMAIN request.headers
     /\ HasInstallationId(request)) =>
        error = NoError /\ trace = <<>>

-----------------------------------------------------------------------------
(* C8 *)

EventIs(req, name) ==
    IF EventHeader \in DOMAIN req.headers
    THEN req.headers[EventHeader] = name ELSE FALSE

ActionIs(req, action) ==
    IF "action" \in DOMAIN req.body THEN req.body["action"] = action ELSE FALSE

\* method was registered on cls by some add_handler call
RegisteredOn(method, cls) ==
    \E k \in 1..Len(regLog) : regLog[k] = [event |-> cls, method |-> method]

WasCalled(method) == \E j \in 1..Len(Called) : Called[j] = method

\* C8: every handler a dispatch enters was registered on the resolved class
\* or on one of its ancestors. An issue_comment request with action created
\* resolves to IssueCommentCreatedEvent and, when handle() returns, has run
\* the handlers registered on IssueCommentCreatedEvent, IssueCommentEvent and
\* Event; with action deleted it resolves to IssueCommentDeletedEvent and
\* enters no handler registered on IssueCommentCreatedEvent alone.
C8_OnlyLeafOrAncestorHandlers ==
    /\ \A j \in 1..Len(Called) :
          \E cls \in EventTypes :
              RegisteredOn(Called[j], cls) /\ IsSubclass(event_class, cls)
    /\ (pc # "idle" /\ EventIs(request, "issue_comment")
           /\ ActionIs(request, "created")) =>
          /\ event_class = "IssueCommentCreatedEvent"
          /\ Returned =>
                \A m \in Methods :
                    (\/ RegisteredOn(m, "IssueCommentCreatedEvent")
                     \/ RegisteredOn(m, "IssueCommentEvent")
                     \/ RegisteredOn(m, "Event")) => WasCalled(m)
    /\ (pc # "idle" /\ EventIs(request, "issue_comment")
           /\ ActionIs(request, "deleted")) =>
          /\ event_class = "IssueCommentDeletedEvent"
          /\ \A m \in Methods :
                (/\ RegisteredOn(m, "IssueCommentCreatedEvent")
                 /\ \A cls \in EventTypes \ {"IssueCommentCreatedEvent"} :
                       ~RegisteredOn(m, cls)) => ~WasCalled(m)

C8_Witness ==
    /\ Returned
    /\ ActionIs(request, "deleted")
    /\ event_class = "IssueCommentDeletedEvent"
    /\ Len(Called) = 1
    /\ \E m \in Methods :
          RegisteredOn(m, "IssueCommentCreatedEvent") /\ ~WasCalled(m)

-----------------------------------------------------------------------------
(* C9 *)

\* C9: a dispatch that returns has run every handler registered on the
\* resolved class or on one of its ancestors, also when the resolved class
\* is not a leaf (an issue_comment request whose action is none of created,
\* deleted, edited, with a handler registered on IssueCommentEvent).
C9_RunsForTypeAndDescendants ==
    (Returned /\ event_class # "None") =>
        \A k \in 1..Len(regLog) :
            IsSubclass(event_class, regLog[k].event) => WasCalled(regLog[k].method)

-----------------------------------------------------------------------------
(* C10 *)

\* the request satisfies the criteria of cls and of all its ancestors
EffectiveMatch(cls, req) ==
    \A anc \in DeclaredEventTypes : IsSubclass(cls, anc) => Matches(anc, req)

\* C10: a request that satisfies the effective criteria of a declared class T
\* (its own and its ancestors') and the own criteria of no child of T
\* resolves to T, leaf or not: resolution ends at the deepest class reached
\* through matching children, and at a non-leaf class when none of its
\* children matches.
C10_ResolvesToDeepestMatch ==
    pc # "idle" =>
        \A T \in DeclaredEventTypes :
            (/\ EffectiveMatch(T, request)
             /\ \A c \in Children(T) : ~Matches(c, request)) =>
                /\ event_class = T
                /\ error.type \notin {"MalformedRequestError", "UnknownEventError"}

C10_Witness ==
    /\ pc = "done"
    /\ event_class = "IssueCommentEvent"
    /\ ActionIs(request, "reopened")

-----------------------------------------------------------------------------
(* C11 *)

\* the request lacks the event-name header, the installation-target-id
\* header or the id of the installation object
LacksRequired(req) ==
    \/ EventHeader \notin DOMAIN req.headers
    \/ TargetIdHeader \notin DOMAIN req.headers
    \/ ~HasInstallationId(req)

\* C11: a dispatch of a request that lacks the event-name header, the
\* installation-target-id header or the installation id ends with
\* MalformedRequestError (not UnknownEventError, nor any other error) and
\* has entered no handler.
C11_MalformedRequest ==
    (pc = "done" /\ LacksRequired(request)) =>
        error.type = "MalformedRequestError" /\ Called = <<>>

-----------------------------------------------------------------------------
(* C12 *)

\* C12: a dispatch that ends with a resolution or construction error has
\* entered no handler, and in every dispatch each Event construction comes
\* before every entry into a handler, however many handlers are registered.
C12_ConstructionBeforeHandlers ==
    /\ (pc = "done" /\ error.type \in {"MalformedRequestError",
                                      "UnknownEventError", "TypeError"}) =>
          Called = <<>>
    /\ \A i, j \in 1..Len(trace) :
          (trace[i].op = "call" /\ trace[j].op = "construct") => j < i

-----------------------------------------------------------------------------
(* C13 *)

\* C13: no step of a dispatch changes the registry, whether handle() returns,
\* fails in resolution or construction, or ends on a handler's exception; and
\* every dispatch starts its loop at the first entry of the list it finds.
C13_DispatchKeepsRegistry ==
    [][/\ (pc # "idle" \/ pc' # "idle") => handlers' = handlers
       /\ (pc = "idle" /\ pc' = "loop") =>
             idx' = 0 /\ snapshot' = Get(handlers, event_class')]_vars

C13_Witness ==
    /\ pc = "done"
    /\ error.type = "Exception"
    /\ event_class \in DOMAIN handlers
    /\ Len(handlers[event_class]) = 2
    /\ Len(Called) = 1

-----------------------------------------------------------------------------
(* C14 *)

\* C14: a dispatch builds one Event instance; every handler it enters gets
\* that instance, and the check run consulted and updated after a handler's
\* exception is that instance's.
C14_OneInstancePerDispatch ==
    Called # <<>> =>
        /\ instances = 1
        /\ \A j \in 1..Len(trace) :
              trace[j].op \in {"call", "raise", "update_check_run"} =>
                  trace[j].instance = 1

-----------------------------------------------------------------------------
(* C15 *)

\* C15: in every state that add_handler and handle calls can reach, every key
\* of the registry is a class without subclasses.
C15_KeysAreLeaves == DOMAIN handlers \subseteq LeafTypes

C15_Witness ==
    /\ pc = "done"
    /\ event_class = "IssueCommentEvent"
    /\ \E k \in 1..Len(regLog) : ~IsLeaf(regLog[k].event)
    /\ DOMAIN handlers = LeafTypes

-----------------------------------------------------------------------------
(* C16 *)

\* C16: with add_handler calls allowed while a dispatch runs, the list the
\* dispatch reads stays as the lookup found it until the loop has ended, so
\* the handlers the dispatch enters are entries of the resolved class's list
\* as it was at lookup time, and all of them when handle() returns.
C16_WritersExcludeReaders ==
    /\ Running => IsPrefix(Called, snapshot)
    /\ (Returned /\ event_class # "None") => Called = snapshot

-----------------------------------------------------------------------------
(* Properties of config.Config, under SpecConfig *)

\* getattr(Config, name) returns value
Reads(attrs, name, value) == name \in DOMAIN attrs /\ attrs[name] = value

\* the last call was create_config with a basic default and no nested values
CreatedWithDefault ==
    /\ cfgLast.op = "create_config"
    /\ cfgLast.default.kind = "scalar"
    /\ DOMAIN cfgLast.data = {}

\* C17: after create_config(name, default=d) with a basic value d other than
\* None, falsy or not, reading the attribute name of the configuration
\* returns d.
C17_DefaultIsRead ==
    CreatedWithDefault =>
        cfgLast.exc = "" /\ Reads(config, cfgLast.name, cfgLast.default)


\* the paths of a configuration tree or of a dict: every node, and the nodes
\* that hold a basic value
Paths(attrs) ==
    {<<n>> : n \in DOMAIN attrs}
    \cup UNION {{<<n, m>> : m \in DOMAIN attrs[n].attrs} : n \in DOMAIN attrs}
HasPath(attrs, p) ==
    /\ p[1] \in DOMAIN attrs
    /\ Len(p) = 2 => p[2] \in DOMAIN attrs[p[1]].attrs
At(attrs, p) == IF Len(p) = 1 THEN attrs[p[1]] ELSE attrs[p[1]].attrs[p[2]]
LeafPaths(attrs) == {p \in Paths(attrs) : At(attrs, p).kind = "scalar"}

\* data mentions the path p: it sets p, a node above p or a node below p
Mentions(data, p) ==
    /\ p[1] \in DOMAIN data
    /\ (Len(p) = 2 /\ data[p[1]].kind = "dict") => p[2] \in DOMAIN data[p[1]].attrs

\* the last call merged data into the configuration
Merged == cfgLast.op \in {"set_values", "load_config_from_file"}

\* C18: set_values(data) merges into the existing tree: it succeeds, every
\* leaf path of data then holds data's value, every path set earlier that
\* data does not mention keeps its value, and applying data once more changes
\* nothing.
C18_SetValuesMerges ==
    Merged =>
        /\ cfgLast.exc = ""
        /\ \A p \in LeafPaths(cfgLast.data) :
               HasPath(config, p) /\ At(config, p) = At(cfgLast.data, p)
        /\ \A p \in Paths(cfgLast.pre) :
               ~Mentions(cfgLast.data, p) =>
                   HasPath(config, p) /\ At(config, p) = At(cfgLast.pre, p)
        /\ set_values(config, cfgLast.data) = [attrs |-> config, exc |-> ""]


\* the last call was create_config with a default that is set and with
\* nested values
CreatedWithBoth ==
    /\ cfgLast.op = "create_config"
    /\ cfgLast.default.kind # "none"
    /\ DOMAIN cfgLast.data # {}

\* C19: create_config called with both a default that is set (falsy or not)
\* and nested values raises ConfigError and leaves the configuration as it
\* was: the name is not created and no existing value changes.
C19_DefaultAndValuesRejected ==
    CreatedWithBoth => cfgLast.exc = "ConfigError" /\ config = cfgLast.pre

\* a falsy default and nested values were rejected on a configuration that
\* holds another name and not the one asked for
C19_Witness ==
    /\ CreatedWithBoth
    /\ ~Truthy(cfgLast.default)
    /\ cfgLast.exc = "ConfigError"
    /\ DOMAIN cfgLast.pre # {}
    /\ cfgLast.name \notin DOMAIN config


=============================================================================
